---- MODULE Spec2Model ----
(***************************************************************************)
(* File-Size-Visualizer (src/app.py): the directory-size scan.             *)
(*                                                                         *)
(* The GUI thread (start_scan, cancel_scan, _poll_scan) and the scan       *)
(* worker threads (_scan_worker running list_top_level_items and           *)
(* compute_dir_size) are modelled as one state machine.  The file system   *)
(* is an input: a tree of entries, each a regular file, a directory, a     *)
(* symlink to a file or a symlink to a directory, with the size lstat      *)
(* reports and whether stat / listing of the entry succeeds.               *)
(***************************************************************************)
EXTENDS Integers, Sequences, FiniteSets, TLC

(***************************************************************************)
(* Bounds of the model.                                                    *)
(***************************************************************************)
\* number of scan sessions start_scan may start in one behaviour
MaxSessions == 2
\* length in characters of the selected folder's path
RootPathLen == 48
\* length in characters of every entry name
NameLen == 5

(***************************************************************************)
(* The file-system tree.  Node 0 is the selected folder.                   *)
(***************************************************************************)
Nodes == 0..6

Parent == [n \in 1..6 |-> CASE n \in {1, 2, 3} -> 0
                            [] n \in {4, 5}    -> 3
                            [] OTHER           -> 5]

Absent == [kind |-> "none", size |-> 0, statOK |-> FALSE, listOK |-> FALSE]

File(sz, ok) == [kind |-> "file", size |-> sz, statOK |-> ok, listOK |-> FALSE]

Dir(sok, lok) == [kind |-> "dir", size |-> 0, statOK |-> sok, listOK |-> lok]

\* a symlink: size is the st_size lstat reports for the link itself
LinkF(sz) == [kind |-> "linkf", size |-> sz, statOK |-> TRUE, listOK |-> FALSE]

LinkD == [kind |-> "linkd", size |-> 0, statOK |-> TRUE, listOK |-> TRUE]

MkTree(r, a, b, c, d, e, f) ==
    [n \in Nodes |-> CASE n = 0 -> r [] n = 1 -> a [] n = 2 -> b [] n = 3 -> c
                       [] n = 4 -> d [] n = 5 -> e [] OTHER -> f]

\* a symlink, a file and a folder with one file
TreeMain == MkTree(Dir(TRUE, TRUE), LinkF(5), File(20, TRUE), Dir(TRUE, TRUE),
                   File(5, TRUE), Absent, Absent)

\* the tree of the spec's concrete scenario: a.txt 10, b.bin 20, C { c.txt 5 }
TreeR == MkTree(Dir(TRUE, TRUE), File(10, TRUE), File(20, TRUE), Dir(TRUE, TRUE),
                File(5, TRUE), Absent, Absent)

\* file systems of the sessions run together with the GUI thread
MainTrees == {TreeMain}

\* file systems of the single-session specification: every kind of entry at the
\* top level and below it, failing stats and unreadable directories
AggTrees ==
    {MkTree(Dir(TRUE, TRUE), a, b, Dir(TRUE, lc), d, e[1], e[2]) :
        a \in {File(10, TRUE), File(20, FALSE), LinkF(5)},
        b \in {File(20, TRUE), LinkD, Absent},
        lc \in BOOLEAN,
        d \in {File(5, TRUE), File(20, TRUE), File(20, FALSE), LinkF(0), LinkF(20)},
        e \in ({<<Dir(so, lo), f>> : so \in BOOLEAN, lo \in BOOLEAN,
                                    f \in {File(5, TRUE), File(20, TRUE), LinkF(5)}}
               \cup {<<x, Absent>> : x \in {LinkD, Absent, File(20, TRUE)}})}
    \cup {MkTree(Dir(TRUE, FALSE), Absent, Absent, Absent, Absent, Absent, Absent)}

\* file systems of the specification with faults: the first child a folder, a
\* file or a symlink, then a file and the folder C with one or two levels below it
FaultTrees ==
    {MkTree(Dir(TRUE, TRUE), a, File(20, TRUE), Dir(TRUE, TRUE), d, e[1], e[2]) :
        a \in {Dir(TRUE, TRUE), File(10, TRUE), LinkF(5)},
        d \in {File(5, TRUE), File(20, TRUE), LinkF(5)},
        e \in {<<Dir(TRUE, TRUE), File(5, TRUE)>>, <<Dir(TRUE, FALSE), File(5, TRUE)>>,
               <<File(20, TRUE), Absent>>, <<Absent, Absent>>}}

\* values parse_min_size returns for the inputs of the model
MinSizes == {0, 15}

Sessions == 1..MaxSessions

VARIABLES
    fs,            \* the file system: node -> entry
    scan_thread,   \* App.scan_thread: 0 (None) or the session of the thread object
    cancel_flag,   \* App._cancel_flag
    scan_queue,    \* App.scan_queue
    last_items,    \* App._last_items
    table,         \* rows of App.tree
    ui,            \* status_var, prog_frame, progress, cancel_btn, last messagebox
    polls,         \* number of pending after(..., self._poll_scan) callbacks
    poll_pc,       \* "empty" while _poll_scan is between get_nowait() raising
                   \* queue.Empty and its call of is_alive(), else "idle"
    nsessions,     \* number of worker threads started so far
    applied,       \* the last click on Apply with threshold mode off (not read by
                   \* the program): parity of the number of such clicks and
                   \* the minimum size entered
    w,             \* per session: the worker thread's position and locals
    g              \* per session: history of the worker (not read by the program):
                   \* the messages it has put, whether it was cancelled, and, while
                   \* it runs, counts of its listings and stats, the calls of
                   \* progress_cb and the exceptions raised in it

vars == <<fs, scan_thread, cancel_flag, scan_queue, last_items, table, ui, polls,
          poll_pc, nsessions, applied, w, g>>

gui == <<scan_thread, last_items, table, ui, polls, poll_pc, nsessions, applied>>

(***************************************************************************)
(* File-system access.                                                     *)
(***************************************************************************)
\* os.path.isdir(folder)
IsDir(n) == fs[n].kind = "dir" /\ fs[0].kind = "dir"

\* os.stat(path, follow_symlinks=False) succeeds
StatOK(n) == fs[0].kind = "dir" /\ fs[n].kind # "none" /\ fs[n].statOK

\* os.scandir(path) succeeds
ListOK(n) == fs[0].kind = "dir" /\ fs[n].kind = "dir" /\ fs[n].listOK

RECURSIVE SeqOf(_, _)
\* the elements of the set S of nodes in ascending order, starting at node n
SeqOf(S, n) == IF n > 6 THEN <<>>
               ELSE IF n \in S THEN <<n>> \o SeqOf(S, n + 1) ELSE SeqOf(S, n + 1)

ChildSet(n) == {c \in 1..6 : Parent[c] = n /\ fs[c].kind # "none"}

\* the entries os.scandir(n) yields
Children(n) == SeqOf(ChildSet(n), 1)

\* os.walk: entries for which entry.is_dir() (following symlinks) is true
WalkDirs(n) == SeqOf({c \in ChildSet(n) : fs[c].kind \in {"dir", "linkd"}}, 1)

\* os.walk: all other entries
WalkFiles(n) == SeqOf({c \in ChildSet(n) : fs[c].kind \in {"file", "linkf"}}, 1)

RECURSIVE SelectSeqBy(_, _)
\* the subsequence of q of the nodes in the set S
SelectSeqBy(q, S) == IF q = <<>> THEN <<>>
                     ELSE IF Head(q) \in S THEN <<Head(q)>> \o SelectSeqBy(Tail(q), S)
                     ELSE SelectSeqBy(Tail(q), S)

RECURSIVE Depth(_)
Depth(n) == IF n = 0 THEN 0 ELSE 1 + Depth(Parent[n])

\* len(os.path.join(root, name))
PathLen(n) == RootPathLen + Depth(n) * (1 + NameLen)

(***************************************************************************)
(* Values.                                                                 *)
(***************************************************************************)
\* ItemSize(label, path, size, is_dir): label and path are both fixed by the node
ItemSize(n, sz, d) == [label |-> n, size |-> sz, is_dir |-> d]

\* p_display of _progress_cb: the path and the number of characters shown of it
ProgressMsg(s, n) ==
    [kind |-> "progress", from |-> s, path |-> n,
     shown |-> IF PathLen(n) > 60 THEN 1 + 57 ELSE PathLen(n), items |-> <<>>]

DoneMsg(s, its) == [kind |-> "done", from |-> s, path |-> 0, shown |-> 0, items |-> its]

ErrorMsg(s) == [kind |-> "error", from |-> s, path |-> 0, shown |-> 0, items |-> <<>>]

RECURSIVE InsertDesc(_, _)
\* x placed after every element of the descending sequence q that is not smaller
InsertDesc(q, x) == IF q = <<>> THEN <<x>>
                    ELSE IF Head(q).size >= x.size THEN <<Head(q)>> \o InsertDesc(Tail(q), x)
                    ELSE <<x>> \o q

RECURSIVE SortDesc(_)
\* items.sort(key=lambda x: x.size, reverse=True): stable
SortDesc(q) == IF q = <<>> THEN <<>>
               ELSE InsertDesc(SortDesc(SubSeq(q, 1, Len(q) - 1)), q[Len(q)])

RECURSIVE KeepMin(_, _)
\* [it for it in items if it.size >= min_size]
KeepMin(q, m) == IF q = <<>> THEN <<>>
                 ELSE IF Head(q).size >= m THEN <<Head(q)>> \o KeepMin(Tail(q), m)
                 ELSE KeepMin(Tail(q), m)

\* FileFilter with the filter installed only when "Include subfolders" is set
FileFilterIfSubfolders(s, sz) ==
    ~(w[s].threshold_mode /\ w[s].include_subfolders) \/ sz >= w[s].min_size

\* file_filter is None or file_filter(path, size)
FileFilter(s, sz) == ~w[s].threshold_mode \/ sz >= w[s].min_size

Idle == [pc |-> "none", min_size |-> 0, include_subfolders |-> FALSE,
         threshold_mode |-> FALSE, entries |-> <<>>, idx |-> 0, items |-> <<>>,
         stack |-> <<>>, cur |-> 0, dirs |-> <<>>, fi |-> 0, total |-> 0]

Started(m, inc, thr) == [Idle EXCEPT !.pc = "scandir", !.min_size = m,
                                     !.include_subfolders = inc, !.threshold_mode = thr]

NotApplied == [parity |-> 0, min |-> 0]

NoHistory == [sent |-> <<>>, cancelled |-> FALSE, rootFailed |-> FALSE,
              late |-> FALSE, lateIO |-> {}, listAfterFlip |-> 0, nlist |-> 0, nstat |-> 0,
              unexpected |-> 0, called |-> <<>>, raised |-> {}]

\* threading.Thread.is_alive()
Alive(s) == w[s].pc \notin {"none", "dead"}

\* the top-level entry list_top_level_items is processing
Entry(s) == w[s].entries[w[s].idx]

(***************************************************************************)
(* list_top_level_items, run by the worker of session s.                   *)
(***************************************************************************)
\* os.scandir(folder): raises when the folder cannot be listed; the except
\* clause around the loop then returns the (empty) items
ScanDir(s) ==
    /\ w[s].pc = "scandir"
    /\ IF ListOK(0)
       THEN /\ w' = [w EXCEPT ![s].pc = "entry", ![s].entries = Children(0), ![s].idx = 1]
            /\ g' = g
       ELSE /\ w' = [w EXCEPT ![s].pc = "finish"]
            /\ g' = [g EXCEPT ![s].rootFailed = TRUE]
    /\ UNCHANGED <<fs, cancel_flag, scan_queue, gui>>

\* if entry.is_symlink(): continue
EntrySymlink(s) ==
    /\ w[s].pc = "entry" /\ w[s].idx <= Len(w[s].entries)
    /\ fs[Entry(s)].kind \in {"linkf", "linkd"}
    /\ w' = [w EXCEPT ![s].idx = @ + 1]
    /\ UNCHANGED <<fs, cancel_flag, scan_queue, gui, g>>

\* entry.is_dir(): compute_dir_size(entry.path, ...) is entered
EntryDir(s) ==
    /\ w[s].pc = "entry" /\ w[s].idx <= Len(w[s].entries)
    /\ fs[Entry(s)].kind = "dir"
    /\ w' = [w EXCEPT ![s].pc = "walk", ![s].stack = <<Entry(s)>>, ![s].total = 0,
                      ![s].cur = 0, ![s].dirs = <<>>, ![s].fi = 0]
    /\ g' = [g EXCEPT ![s].listAfterFlip = 0, ![s].late = cancel_flag]
    /\ UNCHANGED <<fs, cancel_flag, scan_queue, gui>>

\* entry.is_file(): safe_stat, the filter, items.append
EntryFile(s) ==
    /\ w[s].pc = "entry" /\ w[s].idx <= Len(w[s].entries)
    /\ fs[Entry(s)].kind = "file"
    /\ LET e == Entry(s)
           size == IF StatOK(e) THEN fs[e].size ELSE 0
       IN /\ w' = [w EXCEPT ![s].idx = @ + 1,
                            ![s].items = IF FileFilter(s, size)
                                         THEN Append(@, ItemSize(e, size, FALSE)) ELSE @]
          /\ g' = [g EXCEPT ![s].nstat = @ + 1,
                            ![s].lateIO = IF cancel_flag THEN @ \cup {e} ELSE @]
    /\ UNCHANGED <<fs, cancel_flag, scan_queue, gui>>

\* the scandir iterator is exhausted: return items
EntriesDone(s) ==
    /\ w[s].pc = "entry" /\ w[s].idx > Len(w[s].entries)
    /\ w' = [w EXCEPT ![s].pc = "finish"]
    /\ UNCHANGED <<fs, cancel_flag, scan_queue, gui, g>>

(***************************************************************************)
(* compute_dir_size, run by the worker of session s on the top-level       *)
(* directory Entry(s).  os.walk keeps the directories still to list in     *)
(* w[s].stack; w[s].cur is the directory whose (root, dirs, files) it has  *)
(* yielded to the loop body.                                               *)
(***************************************************************************)
\* Returned with directories of size 0 left out of the items
ReturnedHidingEmpty(s) ==
    [w[s] EXCEPT !.pc = "entry", !.idx = @ + 1, !.stack = <<>>, !.cur = 0,
                 !.dirs = <<>>, !.fi = 0, !.total = 0,
                 !.items = IF w[s].total > 0
                           THEN Append(@, ItemSize(Entry(s), w[s].total, TRUE)) ELSE @]

\* return total; back in list_top_level_items: items.append(ItemSize(..., is_dir=True))
Returned(s) == [w[s] EXCEPT !.pc = "entry", !.idx = @ + 1, !.stack = <<>>, !.cur = 0,
                            !.dirs = <<>>, !.fi = 0, !.total = 0,
                            !.items = Append(@, ItemSize(Entry(s), w[s].total, TRUE))]

\* os.walk has no directory left: the for loop ends
WalkReturn(s) ==
    /\ w[s].pc = "walk" /\ w[s].stack = <<>>
    /\ w' = [w EXCEPT ![s] = Returned(s)]
    /\ UNCHANGED <<fs, cancel_flag, scan_queue, gui, g>>

\* os.walk lists the next directory and yields it
WalkList(s) ==
    /\ w[s].pc = "walk" /\ w[s].stack # <<>>
    /\ ListOK(Head(w[s].stack))
    /\ w' = [w EXCEPT ![s].pc = "body", ![s].cur = Head(w[s].stack),
                      ![s].stack = Tail(w[s].stack)]
    /\ g' = [g EXCEPT ![s].nlist = @ + 1,
                      ![s].listAfterFlip = IF cancel_flag THEN @ + 1 ELSE @,
                      ![s].lateIO = IF g[s].late THEN @ \cup {Entry(s)} ELSE @]
    /\ UNCHANGED <<fs, cancel_flag, scan_queue, gui>>

\* WalkListFail with the OSError of scandir propagating out of os.walk to
\* _scan_worker's except clause
WalkListFailRaises(s) ==
    /\ w[s].pc = "walk" /\ w[s].stack # <<>>
    /\ ~ListOK(Head(w[s].stack))
    /\ w' = [w EXCEPT ![s].pc = "exit"]
    /\ scan_queue' = Append(scan_queue, ErrorMsg(s))
    /\ g' = [g EXCEPT ![s].sent = Append(@, ErrorMsg(s))]
    /\ UNCHANGED <<fs, cancel_flag, gui>>

\* os.walk: scandir raises OSError, which os.walk ignores (onerror is None)
WalkListFail(s) ==
    /\ w[s].pc = "walk" /\ w[s].stack # <<>>
    /\ ~ListOK(Head(w[s].stack))
    /\ w' = [w EXCEPT ![s].stack = Tail(w[s].stack)]
    /\ UNCHANGED <<fs, cancel_flag, scan_queue, gui, g>>

\* WalkCancelled raising instead of breaking: the exception leaves
\* list_top_level_items' caller through _scan_worker's except clause
WalkCancelledRaises(s) ==
    /\ w[s].pc = "body"
    /\ cancel_flag
    /\ w' = [w EXCEPT ![s].pc = "exit"]
    /\ scan_queue' = Append(scan_queue, ErrorMsg(s))
    /\ g' = [g EXCEPT ![s].sent = Append(@, ErrorMsg(s))]
    /\ UNCHANGED <<fs, cancel_flag, gui>>

\* if cancel_cb and cancel_cb(): break
WalkCancelled(s) ==
    /\ w[s].pc = "body"
    /\ cancel_flag
    /\ w' = [w EXCEPT ![s] = Returned(s)]
    /\ UNCHANGED <<fs, cancel_flag, scan_queue, gui, g>>

\* WalkPrune with the cancel check left out of the loop
WalkPruneUnchecked(s) ==
    /\ w[s].pc = "body"
    /\ w' = [w EXCEPT ![s].pc = "files", ![s].fi = 1,
                      ![s].dirs = SelectSeqBy(WalkDirs(w[s].cur),
                                              {d \in Nodes : StatOK(d)})]
    /\ UNCHANGED <<fs, cancel_flag, scan_queue, gui, g>>

\* the flag is read and found false: dirs[:] = the directories safe_stat accepts
WalkPrune(s) ==
    /\ w[s].pc = "body"
    /\ ~cancel_flag
    /\ w' = [w EXCEPT ![s].pc = "files", ![s].fi = 1,
                      ![s].dirs = SelectSeqBy(WalkDirs(w[s].cur),
                                              {d \in Nodes : StatOK(d)})]
    /\ UNCHANGED <<fs, cancel_flag, scan_queue, gui, g>>

\* one file of the loop over files: safe_stat, the filter, total += size,
\* progress_cb(fp)
WalkFile(s) ==
    /\ w[s].pc = "files" /\ w[s].fi <= Len(WalkFiles(w[s].cur))
    /\ LET f == WalkFiles(w[s].cur)[w[s].fi]
       IN /\ w' = [w EXCEPT ![s].fi = @ + 1,
                            ![s].total = IF StatOK(f) /\ FileFilter(s, fs[f].size)
                                         THEN @ + fs[f].size ELSE @]
          /\ scan_queue' = Append(scan_queue, ProgressMsg(s, f))
          /\ g' = [g EXCEPT ![s].nstat = @ + 1,
                            ![s].sent = Append(@, ProgressMsg(s, f)),
                            ![s].called = Append(@, f)]
    /\ UNCHANGED <<fs, cancel_flag, gui>>

\* WalkFileCbRaises with the callback's exception leaving compute_dir_size: the
\* except clause of list_top_level_items returns the items collected so far
WalkFileCbAborts(s) ==
    /\ w[s].pc = "files" /\ w[s].fi <= Len(WalkFiles(w[s].cur))
    /\ LET f == WalkFiles(w[s].cur)[w[s].fi]
       IN /\ w' = [w EXCEPT ![s].pc = "finish", ![s].stack = <<>>, ![s].cur = 0,
                            ![s].dirs = <<>>, ![s].fi = 0, ![s].total = 0]
          /\ g' = [g EXCEPT ![s].nstat = @ + 1,
                            ![s].called = Append(@, f),
                            ![s].raised = @ \cup {f}]
    /\ UNCHANGED <<fs, cancel_flag, scan_queue, gui>>

\* WalkFile called with a progress_cb that raises before it has put anything:
\* try: progress_cb(fp) except Exception: pass
WalkFileCbRaises(s) ==
    /\ w[s].pc = "files" /\ w[s].fi <= Len(WalkFiles(w[s].cur))
    /\ LET f == WalkFiles(w[s].cur)[w[s].fi]
       IN /\ w' = [w EXCEPT ![s].fi = @ + 1,
                            ![s].total = IF StatOK(f) /\ FileFilter(s, fs[f].size)
                                         THEN @ + fs[f].size ELSE @]
          /\ g' = [g EXCEPT ![s].nstat = @ + 1,
                            ![s].called = Append(@, f),
                            ![s].raised = @ \cup {f}]
    /\ UNCHANGED <<fs, cancel_flag, scan_queue, gui>>

\* the loop body ends; os.walk resumes and queues the subdirectories left in
\* dirs that are not symlinks
WalkDescend(s) ==
    /\ w[s].pc = "files" /\ w[s].fi > Len(WalkFiles(w[s].cur))
    /\ w' = [w EXCEPT ![s].pc = "walk",
                      ![s].stack = SelectSeqBy(w[s].dirs,
                                               {d \in Nodes : fs[d].kind = "dir"}) \o @]
    /\ UNCHANGED <<fs, cancel_flag, scan_queue, gui, g>>

\* an exception that is not an OSError (MemoryError, RecursionError, ...) is
\* raised inside compute_dir_size: nothing catches it before the except clause
\* around the scandir loop of list_top_level_items, which returns the items
\* appended so far
UnexpectedError(s) ==
    /\ w[s].pc \in {"walk", "body", "files"}
    /\ w' = [w EXCEPT ![s].pc = "finish", ![s].stack = <<>>, ![s].cur = 0,
                      ![s].dirs = <<>>, ![s].fi = 0, ![s].total = 0]
    /\ g' = [g EXCEPT ![s].unexpected = Entry(s)]
    /\ UNCHANGED <<fs, cancel_flag, scan_queue, gui>>

(***************************************************************************)
(* _scan_worker after list_top_level_items has returned.                   *)
(***************************************************************************)
\* WorkerFinish returning without a message when the scan was cancelled
WorkerFinishSilentOnCancel(s) ==
    /\ w[s].pc = "finish"
    /\ LET m == DoneMsg(s, SortDesc(KeepMin(w[s].items, w[s].min_size)))
       IN IF cancel_flag
          THEN UNCHANGED <<scan_queue, g>>
          ELSE /\ scan_queue' = Append(scan_queue, m)
               /\ g' = [g EXCEPT ![s].sent = Append(@, m)]
    /\ w' = [w EXCEPT ![s].pc = "exit"]
    /\ UNCHANGED <<fs, cancel_flag, gui>>

\* WorkerFinish applying the minimum size to the files only
WorkerFinishKeepsFolders(s) ==
    /\ w[s].pc = "finish"
    /\ LET m == DoneMsg(s, SortDesc(SelectSeq(w[s].items,
                                LAMBDA it : it.is_dir \/ it.size >= w[s].min_size)))
       IN /\ scan_queue' = Append(scan_queue, m)
          /\ g' = [g EXCEPT ![s].sent = Append(@, m)]
    /\ w' = [w EXCEPT ![s].pc = "exit"]
    /\ UNCHANGED <<fs, cancel_flag, gui>>

\* WorkerFinish without the sort
WorkerFinishUnsorted(s) ==
    /\ w[s].pc = "finish"
    /\ LET m == DoneMsg(s, KeepMin(w[s].items, w[s].min_size))
       IN /\ scan_queue' = Append(scan_queue, m)
          /\ g' = [g EXCEPT ![s].sent = Append(@, m)]
    /\ w' = [w EXCEPT ![s].pc = "exit"]
    /\ UNCHANGED <<fs, cancel_flag, gui>>

\* WorkerFinish storing the items itself besides putting them on the queue
WorkerFinishStoresItems(s) ==
    /\ w[s].pc = "finish"
    /\ LET m == DoneMsg(s, SortDesc(KeepMin(w[s].items, w[s].min_size)))
       IN /\ scan_queue' = Append(scan_queue, m)
          /\ g' = [g EXCEPT ![s].sent = Append(@, m)]
          /\ last_items' = m.items
    /\ w' = [w EXCEPT ![s].pc = "exit"]
    /\ UNCHANGED <<fs, cancel_flag, scan_thread, table, ui, polls, poll_pc, nsessions,
                   applied>>

\* the min_size filter, the sort, scan_queue.put(("done", items))
WorkerFinish(s) ==
    /\ w[s].pc = "finish"
    /\ LET m == DoneMsg(s, SortDesc(KeepMin(w[s].items, w[s].min_size)))
       IN /\ scan_queue' = Append(scan_queue, m)
          /\ g' = [g EXCEPT ![s].sent = Append(@, m)]
    /\ w' = [w EXCEPT ![s].pc = "exit"]
    /\ UNCHANGED <<fs, cancel_flag, gui>>

\* the thread's run() returns: is_alive() becomes false, its locals are gone
WorkerExit(s) ==
    /\ w[s].pc = "exit"
    /\ w' = [w EXCEPT ![s] = [Idle EXCEPT !.pc = "dead"]]
    /\ g' = [g EXCEPT ![s] = [NoHistory EXCEPT !.sent = g[s].sent,
                                               !.cancelled = g[s].cancelled,
                                               !.rootFailed = g[s].rootFailed]]
    /\ UNCHANGED <<fs, cancel_flag, scan_queue, gui>>

Worker(s) ==
    \/ ScanDir(s) \/ EntrySymlink(s) \/ EntryDir(s) \/ EntryFile(s) \/ EntriesDone(s)
    \/ WalkReturn(s) \/ WalkList(s) \/ WalkListFail(s) \/ WalkCancelled(s)
    \/ WalkPrune(s) \/ WalkFile(s) \/ WalkDescend(s)
    \/ WorkerFinish(s) \/ WorkerExit(s)

(***************************************************************************)
(* The GUI thread.                                                         *)
(***************************************************************************)
\* human_size(n) without humanize: f"{v:.2f} {units[i]}" as <<hundredths of v, i>>
RECURSIVE HumanSizeFrom(_, _, _)
HumanSizeFrom(n, div, i) ==
    IF n >= 1024 * div /\ i < 4 THEN HumanSizeFrom(n, div * 1024, i + 1)
    ELSE <<(2 * 100 * n + div) \div (2 * div), i>>

human_size(n) == HumanSizeFrom(n, 1, 0)

RECURSIVE Rows(_)
\* _populate: one row (label, "Folder" | "File", human_size(size)) per item
Rows(its) == IF its = <<>> THEN <<>>
             ELSE <<[name |-> Head(its).label,
                     type |-> IF Head(its).is_dir THEN "Folder" ELSE "File",
                     size |-> human_size(Head(its).size)]>> \o Rows(Tail(its))

RECURSIVE SumItems(_)
\* sum(i.size for i in items)
SumItems(its) == IF its = <<>> THEN 0 ELSE Head(its).size + SumItems(Tail(its))

\* start_scan leaving the cancel flag as the previous session left it
start_scan_keeps_flag(folder) ==
    /\ poll_pc = "idle"
    /\ UNCHANGED <<poll_pc, applied>>
    /\ IF folder = "" \/ ~IsDir(0)
       THEN /\ ui' = [ui EXCEPT !.dialog = "Invalid folder"]
            /\ UNCHANGED <<fs, scan_thread, cancel_flag, scan_queue, last_items, table,
                           polls, nsessions, w, g>>
       ELSE IF scan_thread # 0 /\ Alive(scan_thread)
       THEN /\ ui' = [ui EXCEPT !.dialog = "Scanning"]
            /\ UNCHANGED <<fs, scan_thread, cancel_flag, scan_queue, last_items, table,
                           polls, nsessions, w, g>>
       ELSE /\ nsessions < MaxSessions
            /\ ui' = [ui EXCEPT !.status = "Scanning...", !.status_arg = <<>>,
                                !.cancel_btn = "normal",
                                !.prog_frame = "packed", !.progress = "started"]
            /\ table' = <<>>
            /\ cancel_flag' = cancel_flag
            /\ nsessions' = nsessions + 1
            /\ scan_thread' = nsessions + 1
            /\ \E min \in MinSizes, inc \in BOOLEAN, thr \in BOOLEAN :
                  w' = [w EXCEPT ![nsessions + 1] = Started(min, inc, thr)]
            /\ polls' = polls + 1
            /\ UNCHANGED <<fs, scan_queue, last_items, g>>

\* start_scan without the check of scan_thread.is_alive()
start_scan_unguarded(folder) ==
    /\ poll_pc = "idle"
    /\ UNCHANGED <<poll_pc, applied>>
    /\ IF folder = "" \/ ~IsDir(0)
       THEN /\ ui' = [ui EXCEPT !.dialog = "Invalid folder"]
            /\ UNCHANGED <<fs, scan_thread, cancel_flag, scan_queue, last_items, table,
                           polls, nsessions, w, g>>
       ELSE /\ nsessions < MaxSessions
            /\ ui' = [ui EXCEPT !.status = "Scanning...", !.status_arg = <<>>,
                                !.cancel_btn = "normal",
                                !.prog_frame = "packed", !.progress = "started"]
            /\ table' = <<>>
            /\ cancel_flag' = FALSE
            /\ nsessions' = nsessions + 1
            /\ scan_thread' = nsessions + 1
            /\ \E min \in MinSizes, inc \in BOOLEAN, thr \in BOOLEAN :
                  w' = [w EXCEPT ![nsessions + 1] = Started(min, inc, thr)]
            /\ polls' = polls + 1
            /\ UNCHANGED <<fs, scan_queue, last_items, g>>

\* start_scan, the folder entry being empty or not; the thread's arguments are
\* read from the min size, "Include subfolders" and threshold widgets
start_scan(folder) ==
    /\ poll_pc = "idle"
    /\ UNCHANGED <<poll_pc, applied>>
    /\ IF folder = "" \/ ~IsDir(0)
       THEN /\ ui' = [ui EXCEPT !.dialog = "Invalid folder"]
            /\ UNCHANGED <<fs, scan_thread, cancel_flag, scan_queue, last_items, table,
                           polls, nsessions, w, g>>
       ELSE IF scan_thread # 0 /\ Alive(scan_thread)
       THEN /\ ui' = [ui EXCEPT !.dialog = "Scanning"]
            /\ UNCHANGED <<fs, scan_thread, cancel_flag, scan_queue, last_items, table,
                           polls, nsessions, w, g>>
       ELSE /\ nsessions < MaxSessions
            /\ ui' = [ui EXCEPT !.status = "Scanning...", !.status_arg = <<>>,
                                !.cancel_btn = "normal",
                                !.prog_frame = "packed", !.progress = "started"]
            /\ table' = <<>>
            /\ cancel_flag' = FALSE
            /\ nsessions' = nsessions + 1
            /\ scan_thread' = nsessions + 1
            /\ \E min \in MinSizes, inc \in BOOLEAN, thr \in BOOLEAN :
                  w' = [w EXCEPT ![nsessions + 1] = Started(min, inc, thr)]
            /\ polls' = polls + 1
            /\ UNCHANGED <<fs, scan_queue, last_items, g>>

\* cancel_scan, the command of the Cancel button
cancel_scan ==
    /\ poll_pc = "idle"
    /\ ui.cancel_btn = "normal"
    /\ cancel_flag' = TRUE
    /\ g' = [s \in Sessions |->
               IF w[s].pc \notin {"none", "exit", "dead"}
               THEN [g[s] EXCEPT !.cancelled = TRUE] ELSE g[s]]
    /\ UNCHANGED <<fs, scan_queue, gui, w>>

ThreadAlive == scan_thread # 0 /\ Alive(scan_thread)

\* _poll_scan, one of the pending after() callbacks firing: get_nowait() and,
\* when it returns a message, the rest of the method; when it raises
\* queue.Empty the method goes on in poll_empty
poll_scan ==
    /\ polls > 0 /\ poll_pc = "idle"
    /\ IF scan_queue = <<>>
       THEN /\ poll_pc' = "empty"
            /\ UNCHANGED <<scan_queue, last_items, table, polls, ui>>
       ELSE LET msg == Head(scan_queue)
            IN /\ scan_queue' = Tail(scan_queue)
               /\ poll_pc' = poll_pc
               /\ IF msg.kind = "error"
                  THEN /\ ui' = [ui EXCEPT !.status = "Error during scan.",
                                           !.status_arg = <<>>,
                                           !.dialog = "Scan error"]
                       /\ polls' = polls - 1
                       /\ UNCHANGED <<last_items, table>>
                  ELSE IF msg.kind = "progress"
                  THEN /\ ui' = [ui EXCEPT !.status = "Scanning: ",
                                           !.status_arg = <<msg.path, msg.shown>>]
                       /\ polls' = polls
                       /\ UNCHANGED <<last_items, table>>
                  ELSE /\ table' = Rows(msg.items)
                       /\ last_items' = msg.items
                       /\ polls' = polls - 1
                       /\ LET found == [ui EXCEPT !.status = "Found items. Total: ",
                                                   !.status_arg =
                                                       <<Len(msg.items),
                                                         human_size(SumItems(msg.items))>>]
                          IN ui' = IF ~ThreadAlive
                                   THEN [found EXCEPT !.progress = "stopped",
                                                      !.cancel_btn = "disabled",
                                                      !.prog_frame = "forgotten"]
                                   ELSE found
    /\ UNCHANGED <<fs, scan_thread, cancel_flag, nsessions, applied, w, g>>

\* poll_empty reading is_alive() in the same instant as the queue was found
\* empty: nothing the worker does in between is missed
poll_empty_atomic ==
    /\ poll_pc = "empty"
    /\ poll_pc' = "idle"
    /\ IF ThreadAlive \/ scan_queue # <<>>
       THEN polls' = polls /\ ui' = ui
       ELSE polls' = polls - 1
            /\ ui' = [ui EXCEPT !.status = "Ready.", !.status_arg = <<>>]
    /\ UNCHANGED <<fs, scan_thread, cancel_flag, scan_queue, last_items, table,
                   nsessions, applied, w, g>>

\* _poll_scan after queue.Empty: if the thread is alive, after(200, _poll_scan),
\* else "Ready." and no further poll
poll_empty ==
    /\ poll_pc = "empty"
    /\ poll_pc' = "idle"
    /\ IF ThreadAlive
       THEN polls' = polls /\ ui' = ui
       ELSE polls' = polls - 1
            /\ ui' = [ui EXCEPT !.status = "Ready.", !.status_arg = <<>>]
    /\ UNCHANGED <<fs, scan_thread, cancel_flag, scan_queue, last_items, table,
                   nsessions, applied, w, g>>

\* on_apply_click, the command of the Apply button, threshold_mode and the
\* minimum size being what the widgets hold.  With threshold mode on it calls
\* start_scan.  With threshold mode off it calls
\* self.apply_filter_without_rescan(), an attribute neither App nor tkinter
\* defines: AttributeError is raised, Tk reports it on stderr and the event loop
\* goes on with nothing changed.
on_apply_click(thr, folder, min) ==
    IF thr
    THEN /\ start_scan(folder)
         /\ nsessions' # nsessions => w'[nsessions'].threshold_mode
                                      /\ w'[nsessions'].min_size = min
    ELSE /\ poll_pc = "idle"
         /\ applied' = [parity |-> 1 - applied.parity, min |-> min]
         /\ UNCHANGED <<fs, scan_thread, cancel_flag, scan_queue, last_items, table, ui,
                        polls, poll_pc, nsessions, w, g>>

\* the selected folder is deleted while the program runs (replaced by a file it
\* behaves alike: isdir is false, scandir raises)
RootVanishes ==
    /\ fs[0].kind = "dir"
    /\ fs' = [fs EXCEPT ![0].kind = "none"]
    /\ UNCHANGED <<cancel_flag, scan_queue, gui, w, g>>

(***************************************************************************)
(* Specifications.                                                         *)
(***************************************************************************)
InitGui ==
    /\ scan_thread = 0
    /\ cancel_flag = FALSE
    /\ scan_queue = <<>>
    /\ last_items = <<>>
    /\ table = <<>>
    /\ ui = [status |-> "Select a folder to begin.", status_arg |-> <<>>,
             prog_frame |-> "forgotten",
             progress |-> "stopped", cancel_btn |-> "disabled", dialog |-> "none"]
    /\ polls = 0
    /\ poll_pc = "idle"
    /\ nsessions = 0
    /\ applied = NotApplied
    /\ w = [s \in Sessions |-> Idle]
    /\ g = [s \in Sessions |-> NoHistory]

Init == fs \in MainTrees /\ InitGui

Next ==
    \/ \E folder \in {"", "R"} : start_scan(folder)
    \/ cancel_scan
    \/ poll_scan
    \/ poll_empty
    \/ RootVanishes
    \/ \E s \in Sessions : Worker(s)

Spec == Init /\ [][Next]_vars

\* Spec with the Apply button.
NextApply ==
    \/ Next
    \/ \E thr \in BOOLEAN, folder \in {"", "R"}, min \in MinSizes :
          on_apply_click(thr, folder, min)

SpecApply == Init /\ [][NextApply]_vars

\* Spec with the scheduling the program runs under: Tk fires every pending
\* after() callback and lets a callback that has started run on, and the
\* operating system lets every live thread take its next step.  The user need
\* not start or cancel anything.
SpecLive ==
    /\ Spec
    /\ WF_vars(poll_scan) /\ WF_vars(poll_empty)
    /\ \A s \in Sessions : WF_vars(Worker(s))

\* One session over every file system of AggTrees: the state start_scan leaves
\* when called first with any values of the widgets, then the worker's steps
\* with cancel_scan at any moment.
InitScan ==
    /\ fs \in AggTrees
    /\ scan_thread = 1
    /\ cancel_flag = FALSE
    /\ scan_queue = <<>>
    /\ last_items = <<>>
    /\ table = <<>>
    /\ ui = [status |-> "Scanning...", status_arg |-> <<>>, prog_frame |-> "packed",
             progress |-> "started", cancel_btn |-> "normal", dialog |-> "none"]
    /\ polls = 1
    /\ poll_pc = "idle"
    /\ nsessions = 1
    /\ applied = NotApplied
    /\ \E min \in MinSizes, inc \in BOOLEAN, thr \in BOOLEAN :
          w = [s \in Sessions |-> IF s = 1 THEN Started(min, inc, thr) ELSE Idle]
    /\ g = [s \in Sessions |-> NoHistory]

NextScan == Worker(1) \/ cancel_scan

SpecScan == InitScan /\ [][NextScan]_vars

\* One session as in SpecScan, over FaultTrees, in which an unexpected error may
\* be raised inside compute_dir_size and the progress callback may raise.
InitFault ==
    /\ fs \in FaultTrees
    /\ scan_thread = 1
    /\ cancel_flag = FALSE
    /\ scan_queue = <<>>
    /\ last_items = <<>>
    /\ table = <<>>
    /\ ui = [status |-> "Scanning...", status_arg |-> <<>>, prog_frame |-> "packed",
             progress |-> "started", cancel_btn |-> "normal", dialog |-> "none"]
    /\ polls = 1
    /\ poll_pc = "idle"
    /\ nsessions = 1
    /\ applied = NotApplied
    /\ \E min \in MinSizes, thr \in BOOLEAN :
          w = [s \in Sessions |-> IF s = 1 THEN Started(min, TRUE, thr) ELSE Idle]
    /\ g = [s \in Sessions |-> NoHistory]

NextFault == Worker(1) \/ cancel_scan \/ UnexpectedError(1) \/ WalkFileCbRaises(1)

SpecFault == InitFault /\ [][NextFault]_vars

(***************************************************************************)
(* Reference values the claims are stated with.                            *)
(***************************************************************************)
Last(q) == q[Len(q)]

Terminal(m) == m.kind \in {"done", "error"}

\* the session's worker has returned from _scan_worker
Finished(s) == w[s].pc \in {"exit", "dead"}

RECURSIVE Under(_, _)
\* node n lies below directory d
Under(n, d) == n # 0 /\ (Parent[n] = d \/ Under(Parent[n], d))

RECURSIVE Reachable(_, _)
\* every directory from d down to n's parent is a real directory that can be
\* listed and, below d, examined
Reachable(n, d) ==
    /\ n # 0
    /\ fs[Parent[n]].kind = "dir" /\ fs[Parent[n]].listOK
    /\ \/ Parent[n] = d
       \/ fs[Parent[n]].statOK /\ Reachable(Parent[n], d)

RECURSIVE SumSizes(_)
SumSizes(S) == IF S = {} THEN 0
               ELSE LET x == CHOOSE y \in S : TRUE IN fs[x].size + SumSizes(S \ {x})

\* the sum of the sizes (at least K) of the regular files reachable from d
RegularSum(d, K) ==
    SumSizes({n \in 1..6 : /\ Under(n, d) /\ Reachable(n, d)
                           /\ fs[n].kind = "file" /\ fs[n].statOK /\ fs[n].size >= K})

\* the same sum with the symlinks to files counted at their lstat size
EntrySum(d, K) ==
    SumSizes({n \in 1..6 : /\ Under(n, d) /\ Reachable(n, d)
                           /\ fs[n].kind \in {"file", "linkf"}
                           /\ fs[n].statOK /\ fs[n].size >= K})

(***************************************************************************)
(* Claims.                                                                 *)
(***************************************************************************)
\* C1: the messages a session's worker puts on the queue are progress messages
\* followed, once the worker has returned, by exactly one terminal message
\* ('done' or 'error'); nothing follows the terminal message; cancel_scan at
\* any moment does not change this.
C1_ProgressThenOneTerminal ==
    \A s \in Sessions :
        LET q == g[s].sent IN
        /\ \A i \in 1..Len(q) : Terminal(q[i]) <=> (i = Len(q) /\ Finished(s))
        /\ Finished(s) => Len(q) >= 1
        /\ \A i \in 1..Len(q) : q[i].from = s /\ (~Terminal(q[i]) => q[i].kind = "progress")

\* C1 witness: a cancelled session has ended with a progress message and then
\* its terminal message
C1_Witness ==
    \E s \in Sessions :
        /\ g[s].cancelled /\ w[s].pc = "dead"
        /\ Len(g[s].sent) = 2
        /\ g[s].sent[1].kind = "progress" /\ g[s].sent[2].kind = "done"

\* C2: at most one scan worker thread is alive at any time; while a worker is
\* alive no step starts a session, and the step in which start_scan is
\* rejected (its "Scanning" dialog appears) leaves the workers, the cancel
\* flag, the message queue, the table and the stored item list unchanged.
C2_SingleWorker ==
    /\ [](Cardinality({s \in Sessions : Alive(s)}) <= 1)
    /\ [][(\E s \in Sessions : Alive(s))
             => /\ nsessions' = nsessions
                /\ \A s \in Sessions : w[s].pc = "none" => w'[s].pc = "none"]_vars
    /\ [][(ui.dialog # "Scanning" /\ ui'.dialog = "Scanning")
             => /\ \E s \in Sessions : Alive(s)
                /\ UNCHANGED <<w, nsessions, scan_thread, cancel_flag, scan_queue,
                               table, last_items>>]_vars

\* C2 witness: start_scan has been rejected while the worker was inside
\* compute_dir_size
C2_Witness ==
    /\ ui.dialog = "Scanning"
    /\ \E s \in Sessions : w[s].pc = "files"

\* C3: a session during which cancel_scan was called ends with 'done', never
\* with 'error', and the list it carries is made of immediate children of the
\* folder, each with at most the size an uncancelled scan gives it.
C3_CancelIsDone ==
    \A s \in Sessions :
        (g[s].cancelled /\ Finished(s)) =>
            LET m == Last(g[s].sent) IN
            /\ m.kind = "done"
            /\ \A i \in 1..Len(m.items) :
                  LET it == m.items[i] IN
                  /\ it.label \in 1..6 /\ Parent[it.label] = 0
                  /\ it.is_dir => it.size <= EntrySum(it.label, 0)
                  /\ ~it.is_dir => it.size \in {0, fs[it.label].size}

\* C3 witness: a cancelled session has ended with a list in which the folder C
\* has less than its full size
C3_Witness ==
    \E s \in Sessions :
        /\ g[s].cancelled /\ Finished(s)
        /\ Last(g[s].sent).kind = "done"
        /\ \E i \in 1..Len(Last(g[s].sent).items) :
              LET it == Last(g[s].sent).items[i] IN
              it.is_dir /\ it.size < EntrySum(it.label, 0)

\* list_top_level_items has returned to a worker that saw no cancellation and
\* could list the folder
ListedUncancelled(s) == w[s].pc = "finish" /\ ~cancel_flag /\ ~g[s].rootFailed

\* C4: with no filter and no cancellation, compute_dir_size returns for every
\* immediate subdirectory the sum of the sizes of the regular files reachable
\* from it; symlinks contribute 0.
C4_SumOfRegularFiles ==
    \A s \in Sessions :
        (ListedUncancelled(s) /\ ~w[s].threshold_mode) =>
            \A i \in 1..Len(w[s].items) :
                w[s].items[i].is_dir =>
                    w[s].items[i].size = RegularSum(w[s].items[i].label, 0)

\* C5: with the filter size >= K and no cancellation, compute_dir_size returns
\* for every immediate subdirectory the sum of the sizes of its files of size
\* >= K, and 0 when it holds no such file.
C5_FilteredSum ==
    \A s \in Sessions :
        (ListedUncancelled(s) /\ w[s].threshold_mode) =>
            \A i \in 1..Len(w[s].items) :
                w[s].items[i].is_dir =>
                    w[s].items[i].size = RegularSum(w[s].items[i].label, w[s].min_size)

\* the items of a sequence as a set of (label, size, kind)
ItemSet(q) == {q[i] : i \in 1..Len(q)}

\* C6: on the tree R = {a.txt 10, b.bin 20, C {c.txt 5}} with minimum size 15, an
\* uncancelled scan with the filter not propagated ends with exactly b.bin (20,
\* File) and C (5, Directory); with the filter propagated C's total is 0.
C6_ScenarioMinSize15 ==
    \A s \in Sessions :
        (fs = TreeR /\ w[s].min_size = 15 /\ ~cancel_flag) =>
            /\ (w[s].pc = "exit" /\ ~w[s].threshold_mode) =>
                  ItemSet(Last(g[s].sent).items)
                      = {ItemSize(2, 20, FALSE), ItemSize(3, 5, TRUE)}
            /\ (w[s].pc = "finish" /\ w[s].threshold_mode) =>
                  ItemSize(3, 0, TRUE) \in ItemSet(w[s].items)

\* what the scan of the scenario does send, whatever the threshold mode
ScenarioBothModesSendOnlyBBin ==
    \A s \in Sessions :
        (fs = TreeR /\ w[s].min_size = 15 /\ ~cancel_flag /\ w[s].pc = "exit") =>
            Last(g[s].sent).items = <<ItemSize(2, 20, FALSE)>>

RECURSIVE ExpectedTopLevel(_, _)
\* for the entries q of the folder in listing order: the label and kind of the
\* item each non-symlink child must produce, files only when they pass the filter
ExpectedTopLevel(s, q) ==
    IF q = <<>> THEN <<>>
    ELSE LET e == Head(q)
             sz == IF fs[e].statOK THEN fs[e].size ELSE 0
         IN (CASE fs[e].kind = "dir" -> <<<<e, TRUE>>>>
               [] fs[e].kind = "file" /\ (~w[s].threshold_mode \/ sz >= w[s].min_size)
                     -> <<<<e, FALSE>>>>
               [] OTHER -> <<>>)
            \o ExpectedTopLevel(s, Tail(q))

\* C7: run without cancellation, list_top_level_items returns one File item for
\* each regular file child that passes the filter, one Directory item for every
\* immediate subdirectory (of size 0 when all its content is filtered out), no
\* item for a symlink and never two items for one child.
C7_OneItemPerChild ==
    \A s \in Sessions :
        ListedUncancelled(s) =>
            LET its == w[s].items
                exp == ExpectedTopLevel(s, Children(0))
            IN /\ Len(its) = Len(exp)
               /\ \A i \in 1..Len(its) :
                     /\ <<its[i].label, its[i].is_dir>> = exp[i]
                     /\ ~its[i].is_dir =>
                           its[i].size = IF fs[its[i].label].statOK
                                         THEN fs[its[i].label].size ELSE 0
                     /\ (its[i].is_dir /\ w[s].threshold_mode
                         /\ EntrySum(its[i].label, w[s].min_size) = 0)
                           => its[i].size = 0

\* C7 witness: the items returned hold a directory of size 0 whose only file was
\* filtered out, next to a symlink child that produced no item
C7_Witness ==
    \E s \in Sessions :
        /\ ListedUncancelled(s) /\ w[s].threshold_mode
        /\ fs[1].kind = "linkf"
        /\ \E i \in 1..Len(w[s].items) :
              /\ w[s].items[i] = ItemSize(3, 0, TRUE)
              /\ RegularSum(3, 0) > 0

\* what compute_dir_size does return without cancellation: the filtered sum over
\* the regular files and the symlinks to files, each at its lstat size
AggregateCountsSymlinks ==
    \A s \in Sessions :
        ListedUncancelled(s) =>
            \A i \in 1..Len(w[s].items) :
                w[s].items[i].is_dir =>
                    w[s].items[i].size
                        = EntrySum(w[s].items[i].label,
                                   IF w[s].threshold_mode THEN w[s].min_size ELSE 0)

C9_NoIOForLaterChildren == \A s \in Sessions : g[s].lateIO = {}

\* C10: a session whose folder could not be listed when the worker enumerated it
\* ends with 'error', not with 'done'.
C10_VanishedRootIsError ==
    \A s \in Sessions :
        (g[s].rootFailed /\ Finished(s)) => Last(g[s].sent).kind = "error"

\* the file entries compute_dir_size can reach from the immediate
\* subdirectories: every directory on the way can be listed and examined
ReachableFiles ==
    {n \in 1..6 : /\ fs[n].kind \in {"file", "linkf"}
                  /\ \E d \in ChildSet(0) :
                        fs[d].kind = "dir" /\ Under(n, d) /\ Reachable(n, d)}

\* the paths of the progress messages a session has put
Reported(s) == {g[s].sent[i].path : i \in {j \in 1..Len(g[s].sent) :
                                             g[s].sent[j].kind = "progress"}}

\* C11: stat and listing failures inside the scanned tree are never surfaced:
\* no session puts 'error' and a finished session has put 'done'; in an
\* uncancelled scan every immediate subdirectory still has its item, whose size
\* is the sum over the entries that could be reached and examined (a file whose
\* stat fails and the whole content of an unreadable directory count 0), every
\* reachable file entry has been visited, a top-level file whose stat fails has
\* size 0, and no item stands for a nested entry.
C11_FailuresSwallowed ==
    \A s \in Sessions :
        /\ \A i \in 1..Len(g[s].sent) : g[s].sent[i].kind # "error"
        /\ Finished(s) => Last(g[s].sent).kind = "done"
        /\ ListedUncancelled(s) =>
              /\ \A d \in ChildSet(0) :
                    fs[d].kind = "dir" =>
                        ItemSize(d, EntrySum(d, IF w[s].threshold_mode
                                                THEN w[s].min_size ELSE 0), TRUE)
                            \in ItemSet(w[s].items)
              /\ \A i \in 1..Len(w[s].items) :
                    /\ Parent[w[s].items[i].label] = 0
                    /\ (~w[s].items[i].is_dir /\ ~fs[w[s].items[i].label].statOK)
                          => w[s].items[i].size = 0
              /\ Reported(s) = ReachableFiles

\* C11 witness: an uncancelled scan has returned the item of a top-level file
\* whose stat fails (size 0) and the item of folder C, whose total 5 leaves out
\* a 20-byte file in an unreadable nested folder
C11_Witness ==
    \E s \in Sessions :
        /\ ListedUncancelled(s)
        /\ fs[1] = File(20, FALSE) /\ ItemSize(1, 0, FALSE) \in ItemSet(w[s].items)
        /\ fs[4] = File(5, TRUE)
        /\ fs[5].kind = "dir" /\ ~fs[5].listOK /\ fs[6] = File(20, TRUE)
        /\ ItemSize(3, 5, TRUE) \in ItemSet(w[s].items)

\* C12: when the aggregation of an immediate subdirectory has raised an
\* unexpected error, the items returned hold an item of size 0 for that
\* subdirectory and an item for every other immediate child that is a folder or
\* a file passing the filter.
C12_FaultyChildKept ==
    \A s \in Sessions :
        (w[s].pc = "finish" /\ g[s].unexpected # 0) =>
            LET exp == ExpectedTopLevel(s, Children(0)) IN
            /\ ItemSize(g[s].unexpected, 0, TRUE) \in ItemSet(w[s].items)
            /\ \A i \in 1..Len(exp) :
                  \E j \in 1..Len(w[s].items) :
                      <<w[s].items[j].label, w[s].items[j].is_dir>> = exp[i]

\* C13: a step of a running worker thread leaves the stored item list, the
\* table, the widgets, the thread attribute, the pending polls and the cancel
\* flag unchanged (it changes only its own locals and the queue); and the stored
\* item list changes only in a step that takes a 'done' message from the head of
\* the queue and stores its items, in which no worker moves.
C13_WorkerTouchesOnlyQueue ==
    /\ [][(\E s \in Sessions : Alive(s) /\ w'[s] # w[s])
             => UNCHANGED <<last_items, table, ui, scan_thread, polls, nsessions,
                            cancel_flag>>]_vars
    /\ [][(last_items' # last_items)
             => /\ scan_queue # <<>> /\ Head(scan_queue).kind = "done"
                /\ scan_queue' = Tail(scan_queue)
                /\ last_items' = Head(scan_queue).items
                /\ table' = Rows(last_items')
                /\ UNCHANGED <<w, cancel_flag>>]_vars

\* C13 witness: the consumer has stored the non-empty list of a session whose
\* worker has put 'done' and not yet returned
C13_Witness ==
    \E s \in Sessions :
        /\ w[s].pc = "exit"
        /\ last_items # <<>> /\ last_items = Last(g[s].sent).items
        /\ table = Rows(last_items)

\* C14: in an uncancelled scan in which no unexpected error occurred, whatever
\* calls of the progress callback raised, every immediate subdirectory has its
\* item with the total of a run in which no callback raises, and the callback
\* has been called exactly once for every file entry reachable in the subtrees,
\* counted in the total or not.
C14_CallbackFailuresIgnored ==
    \A s \in Sessions :
        (ListedUncancelled(s) /\ g[s].unexpected = 0) =>
            /\ \A d \in ChildSet(0) :
                  fs[d].kind = "dir" =>
                      \E i \in 1..Len(w[s].items) :
                          w[s].items[i]
                              = ItemSize(d, EntrySum(d, IF w[s].threshold_mode
                                                        THEN w[s].min_size ELSE 0), TRUE)
            /\ Len(g[s].called) = Cardinality(ReachableFiles)
            /\ {g[s].called[i] : i \in 1..Len(g[s].called)} = ReachableFiles
            /\ g[s].raised \subseteq ReachableFiles

\* C14 witness: the callback raised on the first file of folder C, a file left
\* out of the total by the filter; the file below it was still visited and
\* counted
C14_Witness ==
    \E s \in Sessions :
        /\ ListedUncancelled(s) /\ g[s].unexpected = 0
        /\ w[s].threshold_mode /\ w[s].min_size = 15
        /\ fs[4] = File(5, TRUE) /\ fs[5] = File(20, TRUE)
        /\ g[s].raised = {4} /\ g[s].called = <<4, 5>>
        /\ ItemSize(3, 20, TRUE) \in ItemSet(w[s].items)

\* a terminal message put by the worker of session s is in the queue
TerminalQueued(s) ==
    \E i \in 1..Len(scan_queue) : scan_queue[i].from = s /\ Terminal(scan_queue[i])

\* C17: there is never a terminal message in the queue while no _poll_scan is
\* pending or running; and, under fair scheduling of the workers and the poll
\* timer, every terminal message in the queue is eventually taken from it.
C17_TerminalEventuallyProcessed ==
    /\ []~(polls = 0 /\ poll_pc = "idle" /\ \E s \in Sessions : TerminalQueued(s))
    /\ \A s \in Sessions : TerminalQueued(s) ~> ~TerminalQueued(s)

\* C18: every message _poll_scan takes from the queue was put by the worker of
\* the most recently started session; in particular the items it stores in
\* _last_items are that session's.
C18_OnlyLatestSessionApplied ==
    [][(scan_queue # <<>> /\ scan_queue' = Tail(scan_queue))
          => Head(scan_queue).from = scan_thread]_vars

\* C19: when the thread of the latest scan has ended and every message has
\* been taken from the queue (so its terminal message has been processed), the
\* progress bar is stopped and hidden and the Cancel button is disabled.
C19_ProgressHiddenAfterScan ==
    (scan_thread # 0 /\ ~Alive(scan_thread) /\ scan_queue = <<>> /\ poll_pc = "idle")
        => /\ ui.prog_frame = "forgotten"
           /\ ui.progress = "stopped"
           /\ ui.cancel_btn = "disabled"

\* C20: the items of every 'done' message a worker has put are in
\* non-increasing order of size, cancelled or not.
C20_DoneItemsSorted ==
    \A s \in Sessions :
        \A i \in 1..Len(g[s].sent) :
            g[s].sent[i].kind = "done" =>
                \A j \in 1..(Len(g[s].sent[i].items) - 1) :
                    g[s].sent[i].items[j].size >= g[s].sent[i].items[j + 1].size

\* C20 witness: a cancelled session has put a 'done' message of three items
\* whose order differs from the order in which the items were collected
C20_Witness ==
    \E s \in Sessions :
        /\ w[s].pc = "exit" /\ g[s].cancelled
        /\ Len(Last(g[s].sent).items) = 3
        /\ Last(g[s].sent).items # KeepMin(w[s].items, w[s].min_size)

\* C21: a click on Apply with threshold mode off starts no scan, leaves the
\* cached item list unchanged and leaves the table showing exactly the cached
\* items whose size is at least the minimum size entered; a click with
\* threshold mode on changes nothing but through start_scan.
C21_ApplyRefiltersCache ==
    [][(applied' # applied)
          => /\ nsessions' = nsessions /\ scan_thread' = scan_thread
             /\ last_items' = last_items
             /\ table' = Rows(KeepMin(last_items, applied'.min))]_vars

\* C22: while the worker of a session is scanning, the cancel flag is true only
\* if cancel_scan was called since that session started: a session starts with
\* the flag false, and a cancel made during or after an earlier session is not
\* seen by a later one.
C22_FlagTrueOnlyByOwnCancel ==
    \A s \in Sessions :
        (w[s].pc \notin {"none", "exit", "dead"} /\ cancel_flag) => g[s].cancelled

\* C22 witness: the first session was cancelled and has ended; the second one is
\* visiting the files of folder C with the flag false
C22_Witness ==
    /\ g[1].cancelled /\ w[1].pc = "dead"
    /\ w[2].pc = "files" /\ w[2].fi > 1
    /\ ~cancel_flag /\ ~g[2].cancelled

RECURSIVE RefItems(_, _)
\* for the entries q of the folder in listing order: the items of an
\* uncancelled scan, stated with the session's minimum size and threshold mode
\* alone
RefItems(s, q) ==
    IF q = <<>> THEN <<>>
    ELSE LET e == Head(q)
             sz == IF fs[e].statOK THEN fs[e].size ELSE 0
             K == IF w[s].threshold_mode THEN w[s].min_size ELSE 0
         IN (CASE fs[e].kind = "dir" -> <<ItemSize(e, EntrySum(e, K), TRUE)>>
               [] fs[e].kind = "file" /\ sz >= K -> <<ItemSize(e, sz, FALSE)>>
               [] OTHER -> <<>>)
            \o RefItems(s, Tail(q))

====
